---- MODULE Spec2Model ----
(***************************************************************************)
(* Model of the RTL assistant (assistant.py): the main command loop, the   *)
(* handlers for generate / select / list / testbench / test, and the       *)
(* line-delimited JSON context files they read and write.                  *)
(*                                                                         *)
(* A Python str is a sequence of one-character strings.  A directory is a  *)
(* function from file names to contents.  A context file is a sequence of  *)
(* lines (every write of the program ends its line with a newline).        *)
(***************************************************************************)
EXTENDS Integers, Sequences, FiniteSets, TLC

VARIABLES projFiles, ctxFiles, mode, context_name, history, out

vars == <<projFiles, ctxFiles, mode, context_name, history, out>>

(***************************************************************************)
(* Bounds of the model.                                                    *)
(***************************************************************************)
\* most files ProjectDir may hold
MaxFiles == 2
\* most lines a context file may hold
MaxLines == 6

(***************************************************************************)
(* Python str operations.                                                  *)
(***************************************************************************)
Upper == <<"A","B","C","D","E","F","G","H","I","J","K","L","M",
           "N","O","P","Q","R","S","T","U","V","W","X","Y","Z">>
Lowers == <<"a","b","c","d","e","f","g","h","i","j","k","l","m",
            "n","o","p","q","r","s","t","u","v","w","x","y","z">>
Digits == <<"0","1","2","3","4","5","6","7","8","9">>

Range(s) == {s[i] : i \in DOMAIN s}

UpperChars == Range(Upper)

Whitespace == {" ", "\t", "\n"}

\* the class \w of the re module
WordChars == Range(Upper) \cup Range(Lowers) \cup Range(Digits) \cup {"_"}

LowerChar(ch) ==
  IF ch \in UpperChars
    THEN Lowers[CHOOSE i \in DOMAIN Upper : Upper[i] = ch]
    ELSE ch

\* str.lower()
RECURSIVE lower(_)
lower(s) == IF s = <<>> THEN <<>> ELSE <<LowerChar(Head(s))>> \o lower(Tail(s))

SetMin(S) == CHOOSE x \in S : \A y \in S : x <= y
SetMax(S) == CHOOSE x \in S : \A y \in S : y <= x

\* str.lstrip()
lstrip(s) ==
  LET idx == {i \in DOMAIN s : s[i] \notin Whitespace}
  IN  IF idx = {} THEN <<>> ELSE SubSeq(s, SetMin(idx), Len(s))

\* str.strip()
strip(s) ==
  LET idx == {i \in DOMAIN s : s[i] \notin Whitespace}
  IN  IF idx = {} THEN <<>> ELSE SubSeq(s, SetMin(idx), SetMax(idx))

\* str.startswith(prefix)
startswith(s, prefix) ==
  /\ Len(prefix) <= Len(s)
  /\ SubSeq(s, 1, Len(prefix)) = prefix

\* str.split(maxsplit=1): split on runs of whitespace, at most one split
split_ws1(s) ==
  LET t  == lstrip(s)
      ws == {i \in DOMAIN t : t[i] \in Whitespace}
  IN  IF t = <<>> THEN <<>>
      ELSE IF ws = {} THEN <<t>>
      ELSE LET first == SubSeq(t, 1, SetMin(ws) - 1)
               rest  == lstrip(SubSeq(t, SetMin(ws), Len(t)))
           IN  IF rest = <<>> THEN <<first>> ELSE <<first, rest>>

\* str.split(" ", 1): split at the first space
split_sp1(s) ==
  LET sp == {i \in DOMAIN s : s[i] = " "}
  IN  IF sp = {} THEN <<s>>
      ELSE <<SubSeq(s, 1, SetMin(sp) - 1), SubSeq(s, SetMin(sp) + 1, Len(s))>>

\* str(counter) for a counter >= 0
RECURSIVE IntToStr(_)
IntToStr(n) ==
  IF n < 10 THEN <<Digits[n + 1]>>
  ELSE IntToStr(n \div 10) \o <<Digits[(n % 10) + 1]>>

\* os.path.basename
basename(p) ==
  LET sl == {i \in DOMAIN p : p[i] = "/"}
  IN  IF sl = {} THEN p ELSE SubSeq(p, SetMax(sl) + 1, Len(p))

\* re.sub(r'\W+', '_', s): every run of non-word characters becomes one '_'
RECURSIVE SubNonWord(_)
SubNonWord(s) ==
  IF s = <<>> THEN <<>>
  ELSE IF Head(s) \in WordChars THEN <<Head(s)>> \o SubNonWord(Tail(s))
  ELSE LET w == {i \in DOMAIN s : s[i] \in WordChars}
       IN  IF w = {} THEN <<"_">>
           ELSE <<"_">> \o SubNonWord(SubSeq(s, SetMin(w), Len(s)))

sanitize_name(name) == SubNonWord(lower(strip(name)))

\* s contains sub as a substring (the operator `in` on two strs)
contains(s, sub) ==
  \E i \in 1..(Len(s) + 1) :
    /\ i + Len(sub) - 1 <= Len(s)
    /\ SubSeq(s, i, i + Len(sub) - 1) = sub

(***************************************************************************)
(* String literals of the program.                                         *)
(***************************************************************************)
S_generate  == <<"g","e","n","e","r","a","t","e">>
S_select    == <<"s","e","l","e","c","t">>
S_list      == <<"l","i","s","t">>
S_contexts  == <<"c","o","n","t","e","x","t","s">>
S_ls        == <<"l","s">>
S_testbench == <<"t","e","s","t","b","e","n","c","h">>
S_test      == <<"t","e","s","t">>
S_help      == <<"h","e","l","p">>
S_exit      == <<"e","x","i","t">>
S_quit      == <<"q","u","i","t">>
S_gen_      == <<"g","e","n","_">>
S_test_     == <<"t","e","s","t","_">>
S_dot_v     == <<".","v">>
S_text      == <<"t","e","x","t">>
SP          == <<" ">>

(***************************************************************************)
(* JSON values and the lines of a context file.                            *)
(*                                                                         *)
(* A JSON value is a record: k is its kind; for an object, has is its set  *)
(* of keys, role / text the values of those keys and parts the texts of    *)
(* the list under "parts" (a list of {"text": t} objects); for an array,   *)
(* has is the set of its string elements; for a string, text is the        *)
(* string.  A line is the text json.dumps wrote (raw = "json") or a text   *)
(* json.loads rejects (raw = "empty", "garbage").                          *)
(***************************************************************************)
JValue(k, has, role, text, parts) ==
  [k |-> k, has |-> has, role |-> role, text |-> text, parts |-> parts]

\* {"role": role, "parts": [{"text": text}]}
Turn(role, text) == JValue("obj", {"role", "parts"}, role, <<>>, <<text>>)

\* {"role": role, "text": text}
FlatTurn(role, text) == JValue("obj", {"role", "text"}, role, text, <<>>)

JNull == JValue("null", {}, "", <<>>, <<>>)

json_dumps(v) == [raw |-> "json", v |-> v]

BadLine(raw) == [raw |-> raw, v |-> JNull]

\* json.loads(line.strip()) raises
LoadsRaises(line) == line.raw # "json"

\* the value of `"text" in entry`, for the entries on which it is defined:
\* a substring test on a str, a membership test on a dict's keys or a
\* list's elements
TextIn(entry) ==
  IF entry.k = "str" THEN contains(entry.text, S_text)
  ELSE "text" \in entry.has

\* `"text" in entry` raises TypeError: the entry is not iterable
InRaises(entry) == entry.k \in {"num", "null", "bool"}

\* entry["role"], entry["text"] raise: TypeError on a str or a list,
\* KeyError on a dict without the key
SubscriptRaises(entry) ==
  \/ entry.k # "obj"
  \/ ~ ({"role", "text"} \subseteq entry.has)

\* ParseLine without the conversion of the flat form
ParseLineNoConvert(line) ==
  IF LoadsRaises(line) THEN <<>>
  ELSE IF InRaises(line.v) THEN <<>>
  ELSE <<line.v>>

\* One iteration of the loop over the lines of the file in load_context:
\* the entries the line adds to history (none when the body raises).
ParseLine(line) ==
  IF LoadsRaises(line) THEN <<>>
  ELSE LET entry == line.v
       IN  IF InRaises(entry) THEN <<>>
           ELSE IF TextIn(entry)
             THEN IF SubscriptRaises(entry) THEN <<>>
                  ELSE <<Turn(entry.role, entry.text)>>
             ELSE <<entry>>

\* history after the loop over the lines of the file
RECURSIVE LoadHistory(_)
LoadHistory(lines) ==
  IF lines = <<>> THEN <<>>
  ELSE ParseLine(Head(lines)) \o LoadHistory(Tail(lines))

(***************************************************************************)
(* Directories: functions from file names to contents.                     *)
(***************************************************************************)
exists(files, name) == name \in DOMAIN files

\* open(path, "w") then write: the file holds exactly what is written
WriteFile(files, name, content) ==
  [n \in DOMAIN files \cup {name} |-> IF n = name THEN content ELSE files[n]]

\* open(path, "a") then write: what is written follows what the file held
AppendFile(files, name, lines) ==
  [n \in DOMAIN files \cup {name} |->
     IF n = name
       THEN (IF n \in DOMAIN files THEN files[n] ELSE <<>>) \o lines
       ELSE files[n]]

\* the loop of get_unique_filename, entered with the candidate filename
RECURSIVE UniqueLoop(_, _, _, _)
UniqueLoop(base_name, filename, counter, folder) ==
  IF exists(folder, filename)
    THEN UniqueLoop(base_name,
                    base_name \o <<"_">> \o IntToStr(counter) \o S_dot_v,
                    counter + 1, folder)
    ELSE filename

\* get_unique_filename without the existence loop
get_filename_unchecked(base_name, folder) == base_name \o S_dot_v

get_unique_filename(base_name, folder) ==
  UniqueLoop(base_name, base_name \o S_dot_v, 1, folder)

(***************************************************************************)
(* What one pass of a loop gives out: the last message printed (msg),      *)
(* with the name (arg) and the path it shows, and the variable part of     *)
(* the prompt it sent to the generation service (prompt).                  *)
(***************************************************************************)
Output(msg, arg, path, prompt) ==
  [msg |-> msg, arg |-> arg, path |-> path, prompt |-> prompt]

Printed(msg, arg, path) == Output(msg, arg, path, <<>>)

\* a response of the generation service: a text, or the call raises
Response(ok, text) == [ok |-> ok, text |-> text]

GenerationRaises(resp) == ~ resp.ok

(***************************************************************************)
(* The main loop's except clauses and the handlers.  Each handler is the   *)
(* effect of one call on the files, on the input mode and on what is       *)
(* given out.                                                              *)
(***************************************************************************)
\* the main loop without its except Exception clause: the exception ends it
OnExceptionUncaught(prompt) ==
  /\ mode' = "exited"
  /\ out' = Output("Error", <<>>, <<>>, prompt)

\* except Exception as e: print Error, the loop goes on
OnException(prompt) ==
  /\ mode' = "command"
  /\ out' = Output("Error", <<>>, <<>>, prompt)

\* the two lines handle_generate writes to the context file
GenerateLines(raw_name, verilog_code) ==
  << json_dumps(Turn("user", S_generate \o SP \o raw_name)),
     json_dumps(Turn("model", verilog_code)) >>

\* the context file opened with "a" instead of "w"
WriteContextAppending(files, name, lines) == AppendFile(files, name, lines)

\* with open(context_path, "w")
WriteContext(files, name, lines) == WriteFile(files, name, lines)

handle_generate(c, resp) ==
  LET tokens == split_ws1(c)
  IN  IF Len(tokens) # 2
        THEN /\ out' = Printed("Usage: generate <module_name>", <<>>, <<>>)
             /\ mode' = "command"
             /\ UNCHANGED <<projFiles, ctxFiles>>
        ELSE LET raw_name       == tokens[2]
                 module_name    == sanitize_name(raw_name)
                 base_file_name == S_gen_ \o module_name
                 file_path      == get_unique_filename(base_file_name, projFiles)
                 verilog_code   == strip(resp.text)
             IN  IF GenerationRaises(resp)
                   THEN /\ OnException(raw_name)
                        /\ UNCHANGED <<projFiles, ctxFiles>>
                   ELSE /\ projFiles' = WriteFile(projFiles, file_path, verilog_code)
                        /\ ctxFiles' = WriteContext(ctxFiles, base_file_name,
                                          GenerateLines(raw_name, verilog_code))
                        /\ out' = Output("Context initialized", base_file_name,
                                         file_path, raw_name)
                        /\ mode' = "command"

list_contexts ==
  /\ out' = Printed("Saved Contexts", <<>>, <<>>)
  /\ mode' = "command"
  /\ UNCHANGED <<projFiles, ctxFiles>>

\* load_context creating the missing file and going on to the chat loop
ContextNotFoundCreates(name) ==
  /\ ctxFiles' = WriteFile(ctxFiles, name, <<>>)
  /\ history' = <<>>
  /\ context_name' = name
  /\ mode' = "chat"
  /\ out' = Printed("Loaded context", name, <<>>)
  /\ UNCHANGED projFiles

\* load_context when the file does not exist: print and return
ContextNotFound(name) ==
  /\ out' = Printed("Context not found.", name, <<>>)
  /\ mode' = "command"
  /\ UNCHANGED <<projFiles, ctxFiles, context_name, history>>

\* load_context up to the first input() of the chat loop
load_context(name) ==
  IF ~ exists(ctxFiles, name)
    THEN ContextNotFound(name)
    ELSE /\ history' = LoadHistory(ctxFiles[name])
         /\ context_name' = name
         /\ mode' = "chat"
         /\ out' = Printed("Loaded context", name, <<>>)
         /\ UNCHANGED <<projFiles, ctxFiles>>

handle_testbench(c, resp) ==
  LET tokens == split_ws1(c)
  IN  IF Len(tokens) # 2
        THEN /\ out' = Printed("Usage: testbench <verilog_file>", <<>>, <<>>)
             /\ mode' = "command"
             /\ UNCHANGED <<projFiles, ctxFiles>>
        ELSE LET file_name    == tokens[2]
                 tb_code      == strip(resp.text)
                 tb_file_name == S_test_ \o basename(file_name)
             IN  IF ~ exists(projFiles, file_name)
                   THEN /\ out' = Printed("File not found.", file_name, <<>>)
                        /\ mode' = "command"
                        /\ UNCHANGED <<projFiles, ctxFiles>>
                   ELSE IF GenerationRaises(resp)
                     THEN /\ OnException(projFiles[file_name])
                          /\ UNCHANGED <<projFiles, ctxFiles>>
                     ELSE /\ projFiles' = WriteFile(projFiles, tb_file_name, tb_code)
                          /\ out' = Output("Testbench saved", <<>>, tb_file_name,
                                           projFiles[file_name])
                          /\ mode' = "command"
                          /\ UNCHANGED ctxFiles

\* run: what subprocess.run does: "ok" (empty stderr), "stderr", "raise"
handle_test(c, run) ==
  LET tokens == split_ws1(c)
  IN  /\ mode' = "command"
      /\ UNCHANGED <<projFiles, ctxFiles>>
      /\ IF Len(tokens) # 2
           THEN out' = Printed("Usage: test <testbench_file>", <<>>, <<>>)
           ELSE LET file_name == tokens[2]
                IN  IF ~ exists(projFiles, file_name)
                      THEN out' = Printed("File not found.", file_name, <<>>)
                      ELSE IF run = "raise"
                        THEN out' = Printed("Failed to run testbench", <<>>, file_name)
                        ELSE IF run = "stderr"
                          THEN out' = Printed("Test Output, Errors", <<>>, file_name)
                          ELSE out' = Printed("Test Output", <<>>, file_name)

(***************************************************************************)
(* The chat loop of load_context.                                          *)
(***************************************************************************)
\* the exit test without .lower()
IsExitCaseSensitive(user_input) == user_input \in {S_exit, S_quit}

\* if user_input.lower() in ["exit", "quit"]
IsExit(user_input) == lower(user_input) \in {S_exit, S_quit}

\* the two lines of a chat round, the model Turn first
ChatLinesModelFirst(user_input, reply) ==
  << json_dumps(Turn("model", reply)), json_dumps(Turn("user", user_input)) >>

\* the two lines one chat round writes
ChatLines(user_input, reply) ==
  << json_dumps(Turn("user", user_input)), json_dumps(Turn("model", reply)) >>

\* the transcript opened with "w" instead of "a"
AppendContextTruncating(files, name, lines) == WriteFile(files, name, lines)

\* with open(path, "a")
AppendContext(files, name, lines) == AppendFile(files, name, lines)

\* break: load_context returns to the main loop
ChatLeave ==
  /\ mode' = "command"
  /\ out' = Printed("Exiting context", context_name, <<>>)
  /\ context_name' = <<>>
  /\ history' = <<>>
  /\ UNCHANGED <<projFiles, ctxFiles>>

\* the try statement with the user Turn written before send_message
ChatTryWritesFirst(user_input, resp) ==
  LET reply == strip(resp.text)
  IN  /\ mode' = "chat"
      /\ UNCHANGED <<projFiles, context_name, history>>
      /\ IF GenerationRaises(resp)
           THEN /\ out' = Output("Error", <<>>, <<>>, user_input)
                /\ ctxFiles' = AppendFile(ctxFiles, context_name,
                                          <<json_dumps(Turn("user", user_input))>>)
           ELSE /\ out' = Output("Model", reply, <<>>, user_input)
                /\ ctxFiles' = AppendFile(ctxFiles, context_name,
                                          ChatLines(user_input, reply))

\* the try statement of the chat loop
ChatTry(user_input, resp) ==
  LET reply == strip(resp.text)
  IN  /\ mode' = "chat"
      /\ UNCHANGED <<projFiles, context_name, history>>
      /\ IF GenerationRaises(resp)
           THEN /\ out' = Output("Error", <<>>, <<>>, user_input)
                /\ UNCHANGED ctxFiles
           ELSE /\ out' = Output("Model", reply, <<>>, user_input)
                /\ ctxFiles' = AppendContext(ctxFiles, context_name,
                                             ChatLines(user_input, reply))

(***************************************************************************)
(* The if / elif chain of the main loop.                                   *)
(***************************************************************************)
Dispatch(c) ==
  IF c = <<>> THEN "continue"
  ELSE IF c \in {S_help, <<"h">>, <<"?">>} THEN "help"
  ELSE IF startswith(c, S_generate \o SP) THEN "generate"
  ELSE IF startswith(c, S_select \o SP) THEN "select"
  ELSE IF c \in {S_list \o SP \o S_contexts, S_list, S_ls} THEN "list"
  ELSE IF startswith(c, S_testbench \o SP) THEN "testbench"
  ELSE IF startswith(c, S_test \o SP) THEN "test"
  ELSE IF c \in {S_exit, S_quit} THEN "exit"
  ELSE "unknown"

\* cmd = input(">>> ").strip().lower()
ReadCmd(line) == lower(strip(line))

(***************************************************************************)
(* Inputs.                                                                 *)
(***************************************************************************)
\* the subjects typed after "generate "
Subjects == {<<"a">>, <<"A">>, <<"-">>, <<"!","!">>}

S_Hi    == <<"H","i">>
S_gen_a == S_gen_ \o <<"a">>
S_gen_x == S_gen_ \o <<"x">>

\* the context names typed after "select "
SelectNames == {S_gen_a, S_gen_ \o <<"_">>, S_gen_x}

\* the file names typed after "testbench " and "test "
FileNames == {S_gen_a \o S_dot_v, <<"x">> \o S_dot_v}

Responses ==
  { Response(TRUE, <<"m">>), Response(TRUE, <<" ","w","\n">>), Response(FALSE, <<>>) }

\* the responses to chat.send_message
ChatResponses == {Response(TRUE, <<" ","w","\n">>), Response(FALSE, <<>>)}

RunOutcomes == {"ok", "stderr", "raise"}

\* lines typed at the ">>> " prompt
TypedCommands ==
  {S_generate \o SP \o s : s \in Subjects}
    \cup {S_select \o SP \o n : n \in SelectNames}
    \cup {S_testbench \o SP \o f : f \in FileNames}
    \cup {S_test \o SP \o f : f \in FileNames}
    \cup {S_ls, S_help, SP, S_generate \o SP \o SP, S_exit, <<"Q","U","I","T">>,
          S_testbench}

\* the branch of the main loop each typed line takes
Branch == [line \in TypedCommands |-> Dispatch(ReadCmd(line))]

\* lines typed at the "You: " prompt
TypedChat ==
  {<<"G">> \o Tail(S_generate) \o SP \o <<"a">>, S_exit, <<"Q","u","i","t">> \o SP}

\* the lines a context file left by an earlier run may hold
LegacyLines ==
  { json_dumps(Turn("user", S_Hi)),
    json_dumps(FlatTurn("user", S_Hi)),
    BadLine("empty"),
    BadLine("garbage"),
    json_dumps(JValue("obj", {}, "", <<>>, <<>>)),
    json_dumps(JValue("obj", {"text"}, "", S_Hi, <<>>)),
    json_dumps(JValue("num", {}, "", <<>>, <<>>)),
    json_dumps(JValue("str", {}, "", S_text, <<>>)) }

\* the context files an earlier run may have left: one line between a
\* nested and a flat Turn
LegacyFiles ==
  {<< json_dumps(Turn("user", S_Hi)), l,
      json_dumps(FlatTurn("model", S_Hi)) >> : l \in LegacyLines}

(***************************************************************************)
(* The state machine.                                                      *)
(***************************************************************************)
Init ==
  /\ projFiles = <<>>
  /\ ctxFiles \in {<<>>} \cup {WriteFile(<<>>, S_gen_a, ls) : ls \in LegacyFiles}
  /\ mode = "command"
  /\ context_name = <<>>
  /\ history = <<>>
  /\ out = Printed("RTL Assistant", <<>>, <<>>)

\* a line is read at the ">>> " prompt and takes the branch
Command(line, branch) ==
  /\ mode = "command"
  /\ Branch[line] = branch

CmdContinue ==
  \E line \in TypedCommands :
    /\ Command(line, "continue")
    /\ UNCHANGED <<projFiles, ctxFiles, mode, context_name, history, out>>

CmdHelp ==
  \E line \in TypedCommands :
    /\ Command(line, "help")
    /\ out' = Printed("Available Commands", <<>>, <<>>)
    /\ UNCHANGED <<projFiles, ctxFiles, mode, context_name, history>>

CmdGenerate ==
  \E line \in TypedCommands, resp \in Responses :
    /\ Command(line, "generate")
    /\ Cardinality(DOMAIN projFiles) < MaxFiles
    /\ handle_generate(ReadCmd(line), resp)
    /\ UNCHANGED <<context_name, history>>

CmdSelect ==
  \E line \in TypedCommands :
    /\ Command(line, "select")
    /\ load_context(strip(split_sp1(ReadCmd(line))[2]))

CmdList ==
  \E line \in TypedCommands :
    /\ Command(line, "list")
    /\ list_contexts
    /\ UNCHANGED <<context_name, history>>

CmdTestbench ==
  \E line \in TypedCommands, resp \in Responses :
    /\ Command(line, "testbench")
    /\ Cardinality(DOMAIN projFiles) < MaxFiles
    /\ handle_testbench(ReadCmd(line), resp)
    /\ UNCHANGED <<context_name, history>>

CmdTest ==
  \E line \in TypedCommands, run \in RunOutcomes :
    /\ Command(line, "test")
    /\ handle_test(ReadCmd(line), run)
    /\ UNCHANGED <<context_name, history>>

CmdExit ==
  \E line \in TypedCommands :
    /\ Command(line, "exit")
    /\ mode' = "exited"
    /\ out' = Printed("Exiting assistant.", <<>>, <<>>)
    /\ UNCHANGED <<projFiles, ctxFiles, context_name, history>>

CmdUnknown ==
  \E line \in TypedCommands :
    /\ Command(line, "unknown")
    /\ out' = Printed("Unknown command", ReadCmd(line), <<>>)
    /\ UNCHANGED <<projFiles, ctxFiles, mode, context_name, history>>

\* a line is read at the "You: " prompt: user_input = input("You: ").strip()
ChatExit ==
  \E line \in TypedChat :
    /\ mode = "chat"
    /\ IsExit(strip(line))
    /\ ChatLeave

ChatRound ==
  \E line \in TypedChat, resp \in ChatResponses :
    /\ mode = "chat"
    /\ ~ IsExit(strip(line))
    /\ Len(ctxFiles[context_name]) + 2 <= MaxLines
    /\ ChatTry(strip(line), resp)

\* Ctrl-C at either prompt: only the main loop's except KeyboardInterrupt
\* catches it
Interrupt ==
  /\ mode \in {"command", "chat"}
  /\ mode' = "exited"
  /\ out' = Printed("Goodbye.", <<>>, <<>>)
  /\ context_name' = <<>>
  /\ history' = <<>>
  /\ UNCHANGED <<projFiles, ctxFiles>>

\* input() raises EOFError at either prompt: the main loop's except
\* Exception catches it
InputEOF ==
  /\ mode \in {"command", "chat"}
  /\ OnException(<<>>)
  /\ context_name' = <<>>
  /\ history' = <<>>
  /\ UNCHANGED <<projFiles, ctxFiles>>

Next ==
  \/ CmdContinue
  \/ CmdHelp
  \/ CmdGenerate
  \/ CmdSelect
  \/ CmdList
  \/ CmdTestbench
  \/ CmdTest
  \/ CmdExit
  \/ CmdUnknown
  \/ ChatExit
  \/ ChatRound
  \/ Interrupt
  \/ InputEOF

Spec == Init /\ [][Next]_vars

(***************************************************************************)
(* Vocabulary of the properties.                                           *)
(***************************************************************************)
IsPrefix(a, b) == Len(a) <= Len(b) /\ SubSeq(b, 1, Len(a)) = a

\* the line is a Turn record in the nested form
IsNestedLine(line) ==
  /\ line.raw = "json"
  /\ line.v.k = "obj"
  /\ line.v.has = {"role", "parts"}
  /\ Len(line.v.parts) = 1

\* the line is a Turn record in the flat form
IsFlatLine(line) ==
  /\ line.raw = "json"
  /\ line.v.k = "obj"
  /\ line.v.has = {"role", "text"}

IsTurnLine(line) == IsNestedLine(line) \/ IsFlatLine(line)

\* the Turn a Turn line stands for
TurnOf(line) ==
  IF IsFlatLine(line) THEN Turn(line.v.role, line.v.text)
  ELSE Turn(line.v.role, line.v.parts[1])

RECURSIVE TurnsOf(_)
TurnsOf(lines) ==
  IF lines = <<>> THEN <<>>
  ELSE (IF IsTurnLine(Head(lines)) THEN <<TurnOf(Head(lines))>> ELSE <<>>)
         \o TurnsOf(Tail(lines))

Running == mode \in {"command", "chat"}

\* the messages that report a UsageError, NotFound, ExternalServiceError or
\* SubprocessError
ErrorMessages ==
  { "Unknown command", "Usage: generate <module_name>",
    "Usage: testbench <verilog_file>", "Usage: test <testbench_file>",
    "Context not found.", "File not found.", "Error",
    "Failed to run testbench", "Test Output, Errors" }

(***************************************************************************)
(* C1.  Right after a successful generate of a subject, loading the        *)
(* context gen_<sanitized subject> yields exactly two Turns: the user Turn *)
(* "generate <subject>" and the model Turn holding the generated code      *)
(* (the content of the artifact file just written), also when a context    *)
(* of that name existed before.  The subject is the one handle_generate    *)
(* receives and names in its prompt.                                       *)
(***************************************************************************)
C1_GenerateThenLoad ==
  out.msg = "Context initialized" =>
    /\ out.arg = S_gen_ \o sanitize_name(out.prompt)
    /\ exists(ctxFiles, out.arg)
    /\ exists(projFiles, out.path)
    /\ LoadHistory(ctxFiles[out.arg]) =
         << Turn("user", S_generate \o SP \o out.prompt),
            Turn("model", projFiles[out.path]) >>

\* a second generate of the subject "a": its context existed before
C1_Witness ==
  /\ out.msg = "Context initialized"
  /\ out.path = S_gen_a \o <<"_","1">> \o S_dot_v
  /\ out.prompt = <<"a">>

(***************************************************************************)
(* C2.  Every successful chat round makes a later load return what a load  *)
(* returned before the round, followed by the round's user Turn and then   *)
(* its model Turn: over k rounds, the turns present before followed by the *)
(* 2k appended turns in call order.                                        *)
(***************************************************************************)
C2_ChatAppendsInOrder ==
  [][ out'.msg = "Model" =>
        /\ context_name' = context_name
        /\ exists(ctxFiles, context_name)
        /\ LoadHistory(ctxFiles'[context_name]) =
             LoadHistory(ctxFiles[context_name])
               \o << Turn("user", out'.prompt), Turn("model", out'.arg) >>
        /\ \A n \in DOMAIN ctxFiles \ {context_name} :
             n \in DOMAIN ctxFiles' /\ ctxFiles'[n] = ctxFiles[n] ]_vars

\* two rounds in one session: four turns more than the session loaded
C2_Witness ==
  /\ out.msg = "Model"
  /\ LoadHistory(ctxFiles[context_name]) =
       history \o << Turn("user", out.prompt), Turn("model", out.arg),
                     Turn("user", out.prompt), Turn("model", out.arg) >>

(***************************************************************************)
(* C3.  As claimed: in every step every transcript is an extension of what *)
(* it was (turns are only appended, never rewritten or deleted).           *)
(***************************************************************************)
C3_AppendOnly ==
  [][ \A n \in DOMAIN ctxFiles :
        n \in DOMAIN ctxFiles' /\ IsPrefix(ctxFiles[n], ctxFiles'[n]) ]_vars

(***************************************************************************)
(* C3, amended.  In every step every transcript stays and is an extension  *)
(* of what it was (select / chat, list, testbench and test only append),   *)
(* except the transcript gen_<name> that a successful generate of a        *)
(* subject sanitizing to <name> replaces by its two new turns.             *)
(***************************************************************************)
C3_AppendOnlyButGenerate ==
  [][ \A n \in DOMAIN ctxFiles :
        /\ n \in DOMAIN ctxFiles'
        /\ \/ IsPrefix(ctxFiles[n], ctxFiles'[n])
           \/ /\ out'.msg = "Context initialized"
              /\ out'.arg = n
              /\ n = S_gen_ \o sanitize_name(out'.prompt)
              /\ TurnsOf(ctxFiles'[n]) =
                   << Turn("user", S_generate \o SP \o out'.prompt),
                      Turn("model", projFiles'[out'.path]) >> ]_vars

\* a transcript left by an earlier run, extended by a chat round
C3_Witness ==
  /\ out.msg = "Model"
  /\ Len(ctxFiles[context_name]) = 5
  /\ Len(history) <= 3

(***************************************************************************)
(* C4.  The path a successful generate writes did not exist when it was    *)
(* chosen: it is gen_<name>.v, or gen_<name>_k.v for the least k >= 1      *)
(* whose path is free when gen_<name>.v exists; every artifact written     *)
(* before keeps its content.                                               *)
(***************************************************************************)
C4_GenerateNeverOverwrites ==
  [][ out'.msg = "Context initialized" =>
        LET base    == out'.arg
            Path(k) == IF k = 0 THEN base \o S_dot_v
                       ELSE base \o <<"_">> \o IntToStr(k) \o S_dot_v
        IN  /\ ~ exists(projFiles, out'.path)
            /\ exists(projFiles', out'.path)
            /\ \A f \in DOMAIN projFiles :
                 f \in DOMAIN projFiles' /\ projFiles'[f] = projFiles[f]
            /\ DOMAIN projFiles' = DOMAIN projFiles \cup {out'.path}
            /\ \E k \in 0..(MaxFiles + 1) :
                 /\ out'.path = Path(k)
                 /\ \A j \in 0..(k - 1) : exists(projFiles, Path(j)) ]_vars

\* "-" then "!!": two subjects that both sanitize to "_"
C4_Witness ==
  /\ out.msg = "Context initialized"
  /\ out.prompt = <<"!","!">>
  /\ out.path = S_gen_ \o <<"_","_","1">> \o S_dot_v
  /\ exists(projFiles, S_gen_ \o <<"_">> \o S_dot_v)
  /\ projFiles[S_gen_ \o <<"_">> \o S_dot_v] # projFiles[out.path]

(***************************************************************************)
(* C5.  As claimed: loading a file with exactly one line that is not a     *)
(* Turn record yields exactly the Turns of its other lines, in file order. *)
(***************************************************************************)
C5_MalformedLineSkipped ==
  (out.msg = "Loaded context" /\ exists(ctxFiles, context_name)) =>
    LET lines == ctxFiles[context_name]
        bad   == {i \in DOMAIN lines : ~ IsTurnLine(lines[i])}
    IN  Cardinality(bad) = 1 => history = TurnsOf(lines)

(***************************************************************************)
(* C6.  Selecting a context whose file does not exist prints "Context not  *)
(* found." and returns to the command prompt: no file is created or        *)
(* changed, and a chat session is only ever entered on an existing file.   *)
(***************************************************************************)
C6_SelectMissingAborts ==
  [][ /\ out'.msg = "Context not found." =>
           /\ ~ exists(ctxFiles, out'.arg)
           /\ mode = "command" /\ mode' = "command"
           /\ UNCHANGED <<projFiles, ctxFiles, context_name, history>>
      /\ (mode = "command" /\ mode' = "chat") =>
           /\ exists(ctxFiles, context_name')
           /\ UNCHANGED <<projFiles, ctxFiles>> ]_vars

C6_Witness ==
  /\ out.msg = "Context not found."
  /\ out.arg = S_gen_x
  /\ ctxFiles # <<>>

(***************************************************************************)
(* C7.  After any reported error the assistant is still at a prompt, and   *)
(* it has terminated only through the exit / quit command or a keyboard    *)
(* interrupt.                                                              *)
(***************************************************************************)
C7_NoErrorIsFatal ==
  /\ out.msg \in ErrorMessages => Running
  /\ ~ Running => out.msg \in {"Exiting assistant.", "Goodbye."}

\* a generate whose generation call raised
C7_Witness ==
  /\ out.msg = "Error"
  /\ out.prompt = <<"!","!">>
  /\ mode = "command"

(***************************************************************************)
(* C8.  A file whose lines are all Turn records, flat or nested, loads as  *)
(* the Turns they stand for: a flat line as {role, parts: [{text}]} with   *)
(* its role and text, a nested line unchanged.                             *)
(***************************************************************************)
C8_BothShapesLoad ==
  (out.msg = "Loaded context" /\ exists(ctxFiles, context_name)) =>
    LET lines == ctxFiles[context_name]
    IN  (\A i \in DOMAIN lines : IsTurnLine(lines[i])) =>
          /\ Len(history) = Len(lines)
          /\ \A i \in DOMAIN lines :
               /\ IsFlatLine(lines[i]) =>
                    history[i] = Turn(lines[i].v.role, lines[i].v.text)
               /\ IsNestedLine(lines[i]) => history[i] = lines[i].v

\* the same Turn stored in both shapes gives the same two entries
C8_Witness ==
  /\ out.msg = "Loaded context"
  /\ Len(history) = 3
  /\ IsNestedLine(ctxFiles[context_name][1])
  /\ IsFlatLine(ctxFiles[context_name][2])
  /\ history[1] = history[2]

(***************************************************************************)
(* C9.  A step that reports a raised call ("Error") changes no file:       *)
(* neither an artifact, nor a test_ file, nor a context file.              *)
(***************************************************************************)
C9_FailureWritesNothing ==
  [][ out'.msg = "Error" => UNCHANGED <<projFiles, ctxFiles>> ]_vars

\* a chat round whose send_message raised
C9_Witness ==
  /\ out.msg = "Error"
  /\ mode = "chat"
  /\ out.prompt # <<>>

(***************************************************************************)
(* C10.  In chat mode no command is dispatched: a step creates no file and *)
(* changes none but the selected transcript, and gives out a chat reply,   *)
(* an error, the leaving of the context or the interrupt; exit / quit      *)
(* leaves the context for the command prompt, writes nothing and is never  *)
(* sent or appended; the assistant terminates on exit / quit only at the   *)
(* command prompt.                                                         *)
(***************************************************************************)
C10_TwoInputModes ==
  [][ /\ mode = "chat" =>
           /\ projFiles' = projFiles
           /\ DOMAIN ctxFiles' = DOMAIN ctxFiles
           /\ \A n \in DOMAIN ctxFiles \ {context_name} : ctxFiles'[n] = ctxFiles[n]
           /\ out'.msg \in {"Model", "Error", "Exiting context", "Goodbye."}
           /\ out'.msg \in {"Model", "Error"} => mode' = "chat" \/ out'.prompt = <<>>
      /\ out'.msg = "Exiting context" =>
           /\ mode = "chat" /\ mode' = "command"
           /\ UNCHANGED <<projFiles, ctxFiles>>
      /\ out'.msg = "Model" =>
           /\ mode = "chat"
           /\ ~ (lower(out'.prompt) \in {S_exit, S_quit})
      /\ (mode = "chat" /\ mode' = "exited") => out'.msg = "Goodbye."
      /\ out'.msg = "Exiting assistant." => mode = "command" /\ mode' = "exited" ]_vars

\* "Generate a" typed in chat mode: sent as a message, no artifact written
C10_Witness ==
  /\ out.msg = "Model"
  /\ lower(out.prompt) = S_generate \o SP \o <<"a">>
  /\ mode = "chat"
  /\ projFiles = <<>>

====
